---- MODULE Spec2Model ----
(***************************************************************************)
(* astro-sst: the build-time route metadata compiler (BuildMeta), the      *)
(* integration hooks that drive it, and the handler of the deployed        *)
(* function (entrypoint).                                                  *)
(*                                                                         *)
(* Strings are TLA+ strings; an optional value (a JavaScript value that    *)
(* may be undefined) is a sequence of length 0 or 1.                       *)
(***************************************************************************)
EXTENDS Integers, Sequences, FiniteSets, TLC

VARIABLES
  hook,               \* the last integration hook that ran
  entrypointParameters, \* createIntegration's argument, after defaulting
  integrationConfig,  \* BuildMeta.integrationConfig
  astroConfig,        \* BuildMeta.astroConfig
  routes,             \* BuildMeta.routes
  buildOutput,        \* BuildMeta.buildOutput
  serverHas404,       \* 404.html is present in the server output directory
  metaFile,           \* the contents of sst.buildMeta.json, once written
  writes,             \* how often sst.buildMeta.json has been written
  origin,             \* history: for each entry of metaFile's routes, the index
                      \* of the route it was emitted for (0: the asset catch-all)
  buildError,         \* the error that left the astro:build:done hook
  probe,              \* the call under test of the pure-function specifications
  adapterArgs,        \* the args of the adapter given to setAdapter
  lambda,             \* the deployed function: its exports and its invocation
  fileOps             \* history: the file operations of astro:build:done, in
                      \* order, each with whether it succeeded

vars == <<hook, entrypointParameters, integrationConfig, astroConfig, routes,
          buildOutput, serverHas404, metaFile, writes, origin, buildError, probe,
          adapterArgs, lambda, fileOps>>

buildMetaVars == <<integrationConfig, astroConfig, routes, buildOutput>>

-----------------------------------------------------------------------------
(* Bounds of the model.                                                    *)

MaxRoutes == 2        \* routes in a resolved route table
MaxSegments == 2      \* segments of a path given to buildRedirectPath alone
MaxParts == 2         \* parts of one such segment
MaxPatternLen == 4    \* characters of a pattern string given to the rewrites

-----------------------------------------------------------------------------
(* Strings.                                                                *)

None == <<>>
Some(v) == <<v>>

StartsWith(s, prefix) ==
  Len(s) >= Len(prefix) /\ SubSeq(s, 1, Len(prefix)) = prefix

EndsWith(s, suffix) ==
  Len(s) >= Len(suffix) /\ SubSeq(s, Len(s) - Len(suffix) + 1, Len(s)) = suffix

DropLast(s, n) == SubSeq(s, 1, Len(s) - n)

\* s.replace(/X$/, by) for a literal X: the one match can only be the suffix
ReplaceSuffix(s, suffix, by) ==
  IF EndsWith(s, suffix) THEN DropLast(s, Len(suffix)) \o by ELSE s

\* s.replace(/\/+/g, "/")
RECURSIVE CollapseSlashes(_)
CollapseSlashes(s) ==
  IF Len(s) = 0 THEN ""
  ELSE IF Len(s) >= 2 /\ SubSeq(s, 1, 2) = "//"
       THEN CollapseSlashes(SubSeq(s, 2, Len(s)))
       ELSE SubSeq(s, 1, 1) \o CollapseSlashes(SubSeq(s, 2, Len(s)))

\* list.join(sep)
RECURSIVE Join(_, _)
Join(list, sep) ==
  IF Len(list) = 0 THEN ""
  ELSE IF Len(list) = 1 THEN list[1]
  ELSE list[1] \o sep \o Join(Tail(list), sep)

-----------------------------------------------------------------------------
(* The inputs: what the framework hands to the hooks.                      *)

TrailingSlashModes == {"always", "never", "ignore"}
OutputModes == {"static", "server"}
ResponseModes == {"buffer", "stream"}
AssetsDir == "_astro"

Lit(c) == [content |-> c, dynamic |-> FALSE, spread |-> FALSE]
Dyn(c) == [content |-> c, dynamic |-> TRUE, spread |-> FALSE]

\* the path the framework derives from a route's segments, "/blog/[id]"
PartText(part) == IF part.dynamic THEN "[" \o part.content \o "]" ELSE part.content

RECURSIVE SegmentText(_)
SegmentText(segment) ==
  IF Len(segment) = 0 THEN ""
  ELSE PartText(Head(segment)) \o SegmentText(Tail(segment))

RoutePattern(segments) ==
  "/" \o Join([k \in 1..Len(segments) |-> SegmentText(segments[k])], "/")

NoRedirect == [kind |-> "undefined"]
RedirectString(to) == [kind |-> "string", value |-> to]
RedirectObject(to, code) == [kind |-> "object", destination |-> to, status |-> code]

ResolvedRoute(segments, type, isPrerendered, redirect, redirectRoute) ==
  [pattern |-> RoutePattern(segments), segments |-> segments, type |-> type,
   isPrerendered |-> isPrerendered, redirect |-> redirect,
   redirectRoute |-> redirectRoute]

RootSegments == <<>>
AboutSegments == << <<Lit("about")>> >>
BlogIdSegments == << <<Lit("blog")>>, <<Dyn("id")>> >>
LangVersionSegments == << <<Dyn("lang"), Lit("-"), Dyn("v")>>, <<Lit("docs")>> >>
AssetPageSegments == << <<Lit(AssetsDir)>>, <<Dyn("file")>> >>
ApiSegments == << <<Lit("api")>> >>
OldIdSegments == << <<Lit("old")>>, <<Dyn("id")>> >>

Page(segments, isPrerendered) ==
  ResolvedRoute(segments, "page", isPrerendered, NoRedirect, None)

PageRoutes ==
  { Page(RootSegments, FALSE), Page(AboutSegments, FALSE), Page(AboutSegments, TRUE),
    Page(BlogIdSegments, FALSE), Page(LangVersionSegments, TRUE),
    Page(AssetPageSegments, FALSE) }

EndpointRoutes ==
  { ResolvedRoute(ApiSegments, "endpoint", FALSE, NoRedirect, None),
    ResolvedRoute(AssetPageSegments, "endpoint", TRUE, NoRedirect, None) }

FallbackRoutes ==
  { ResolvedRoute(AboutSegments, "fallback", FALSE, NoRedirect, None) }

\* a configured redirect always has its target; it has a redirectRoute when
\* the target is itself a route of the project
RedirectRoutes ==
  { ResolvedRoute(OldIdSegments, "redirect", FALSE, to, rr) :
      to \in { RedirectString("/blog/[id]"), RedirectObject("/blog/[id]", 301) },
      rr \in { None, Some(Page(BlogIdSegments, FALSE)) } }

ResolvedRoutes == PageRoutes \cup EndpointRoutes \cup FallbackRoutes \cup RedirectRoutes

RouteTables == UNION { [1..n -> ResolvedRoutes] : n \in 0..MaxRoutes }

-----------------------------------------------------------------------------
(* BuildMeta.buildRedirectPath                                             *)

\* one segment: segment.map(part => part.dynamic ? `${++i}` : part.content).join("")
\* with the counter i as it stands before and after the segment
RECURSIVE RenderSegment(_, _)
RenderSegment(segment, i) ==
  IF Len(segment) = 0 THEN [text |-> "", i |-> i]
  ELSE LET part == Head(segment)
           n    == IF part.dynamic THEN i + 1 ELSE i
           text == IF part.dynamic THEN "${" \o ToString(n) \o "}" ELSE part.content
           rest == RenderSegment(Tail(segment), n)
       IN  [text |-> text \o rest.text, i |-> rest.i]

\* faulty variant: the counter starts again in every segment
RECURSIVE RenderSegmentsPerSegment(_, _)
RenderSegmentsPerSegment(segments, i) ==
  IF Len(segments) = 0 THEN <<>>
  ELSE <<RenderSegment(Head(segments), i).text>>
         \o RenderSegmentsPerSegment(Tail(segments), i)

\* segments.map(...): the counter is shared by all segments
RECURSIVE RenderSegments(_, _)
RenderSegments(segments, i) ==
  IF Len(segments) = 0 THEN <<>>
  ELSE LET first == RenderSegment(Head(segments), i)
       IN  <<first.text>> \o RenderSegments(Tail(segments), first.i)

\* faulty variant: the repeated slashes are left in
buildRedirectPathUncollapsed(route, config) ==
  "/" \o Join(RenderSegments(route.segments, 0), "/")
      \o (IF config.trailingSlash = "always" THEN "/" ELSE "")

\* faulty variant: the slash of the always mode is not appended
buildRedirectPathNoSlash(route, config) ==
  CollapseSlashes("/" \o Join(RenderSegments(route.segments, 0), "/"))

buildRedirectPath(route, config) ==
  CollapseSlashes("/" \o Join(RenderSegments(route.segments, 0), "/")
                      \o (IF config.trailingSlash = "always" THEN "/" ELSE ""))

-----------------------------------------------------------------------------
(* BuildMeta.writeToFile: the route list                                   *)

\* JSON.stringify leaves out a property whose value is undefined
NoFields == [k \in {} |-> k]
Field(name, value) == IF value = None THEN NoFields ELSE [k \in {name} |-> value[1]]

\* faulty variant: the added slash is not escaped
AddUnescapedSlashToPattern(pattern) == ReplaceSuffix(pattern, "$/", "/$/")

\* route.pattern.toString().replace(/\$\/$/, "\\/$/")
AddTrailingSlashToPattern(pattern) == ReplaceSuffix(pattern, "$/", "\\/$/")

\* faulty variant: an optional slash before the end anchor is stripped too
RemoveAnyTrailingSlashFromPattern(pattern) ==
  IF EndsWith(pattern, "\\/?$/") THEN DropLast(pattern, 5) \o "$/"
  ELSE ReplaceSuffix(pattern, "\\/$/", "$/")

\* route.pattern.toString().replace(/\\\/\$\/$/, "$/")
RemoveTrailingSlashFromPattern(pattern) == ReplaceSuffix(pattern, "\\/$/", "$/")

\* faulty variant: a redirect object's destination is not read
RedirectPathOfStringOnly(route, config) ==
  IF route.redirectRoute # None
    THEN Some(buildRedirectPath(route.redirectRoute[1], config))
  ELSE IF route.redirect.kind = "string" THEN Some(route.redirect.value)
  ELSE None

\* faulty variant: the explicit target is preferred to the redirectRoute
RedirectPathOfExplicitFirst(route, config) ==
  IF route.redirect.kind = "string" THEN Some(route.redirect.value)
  ELSE IF route.redirect.kind = "object" THEN Some(route.redirect.destination)
  ELSE IF route.redirectRoute # None
    THEN Some(buildRedirectPath(route.redirectRoute[1], config))
  ELSE None

RedirectPathOf(route, config) ==
  IF route.redirectRoute # None
    THEN Some(buildRedirectPath(route.redirectRoute[1], config))
  ELSE IF route.redirect.kind = "string" THEN Some(route.redirect.value)
  ELSE IF route.redirect.kind = "object" THEN Some(route.redirect.destination)
  ELSE None

\* faulty variant: prerender is the route's own flag in every output mode
CanonicalEntryOwnPrerender(route, config, output) ==
  [route   |-> route.pattern \o (IF config.trailingSlash = "always" THEN "/" ELSE ""),
   type    |-> route.type,
   pattern |-> route.pattern]
  @@ Field("prerender",
           IF route.type # "redirect" THEN Some(route.isPrerendered) ELSE None)
  @@ Field("redirectPath", RedirectPathOf(route, config))
  @@ Field("redirectStatus",
           IF route.redirect.kind = "object" THEN Some(route.redirect.status) ELSE None)

CanonicalEntry(route, config, output) ==
  [route   |-> route.pattern \o (IF config.trailingSlash = "always" THEN "/" ELSE ""),
   type    |-> route.type,
   pattern |-> route.pattern]
  @@ Field("prerender",
           IF route.type # "redirect"
             THEN Some(output = "static" \/ route.isPrerendered) ELSE None)
  @@ Field("redirectPath", RedirectPathOf(route, config))
  @@ Field("redirectStatus",
           IF route.redirect.kind = "object" THEN Some(route.redirect.status) ELSE None)

NeverRedirectEntry(route, config) ==
  [route        |-> route.pattern \o "/",
   type         |-> "redirect",
   pattern      |-> AddTrailingSlashToPattern(route.pattern),
   redirectPath |-> buildRedirectPath(route, config)]

AlwaysRedirectEntry(route, config) ==
  [route        |-> ReplaceSuffix(route.pattern, "/", ""),
   type         |-> "redirect",
   pattern      |-> RemoveTrailingSlashFromPattern(route.pattern),
   redirectPath |-> buildRedirectPath(route, config)]

\* faulty variant: the never redirect is pushed, not unshifted
RouteSetNeverAppends(route, config, output) ==
  LET routeSet == <<CanonicalEntry(route, config, output)>> IN
  IF route.type = "page" /\ route.pattern # "/"
    THEN IF config.trailingSlash = "never"
           THEN routeSet \o <<NeverRedirectEntry(route, config)>>
         ELSE IF config.trailingSlash = "always"
           THEN routeSet \o <<AlwaysRedirectEntry(route, config)>>
         ELSE routeSet
    ELSE routeSet

\* faulty variant: the always redirect is unshifted, not pushed
RouteSetAlwaysPrepends(route, config, output) ==
  LET routeSet == <<CanonicalEntry(route, config, output)>> IN
  IF route.type = "page" /\ route.pattern # "/"
    THEN IF config.trailingSlash = "never"
           THEN <<NeverRedirectEntry(route, config)>> \o routeSet
         ELSE IF config.trailingSlash = "always"
           THEN <<AlwaysRedirectEntry(route, config)>> \o routeSet
         ELSE routeSet
    ELSE routeSet

\* faulty variant: the root page is not excepted
RouteSetRootToo(route, config, output) ==
  LET routeSet == <<CanonicalEntry(route, config, output)>> IN
  IF route.type = "page"
    THEN IF config.trailingSlash = "never"
           THEN <<NeverRedirectEntry(route, config)>> \o routeSet
         ELSE IF config.trailingSlash = "always"
           THEN routeSet \o <<AlwaysRedirectEntry(route, config)>>
         ELSE routeSet
    ELSE routeSet

\* the callback of this.routes.flatMap
RouteSet(route, config, output) ==
  LET routeSet == <<CanonicalEntry(route, config, output)>> IN
  IF route.type = "page" /\ route.pattern # "/"
    THEN IF config.trailingSlash = "never"
           THEN <<NeverRedirectEntry(route, config)>> \o routeSet
         ELSE IF config.trailingSlash = "always"
           THEN routeSet \o <<AlwaysRedirectEntry(route, config)>>
         ELSE routeSet
    ELSE routeSet

\* faulty variant: the route sets are put together last route first
RECURSIVE FlatMapRoutesReversed(_, _, _)
FlatMapRoutesReversed(table, config, output) ==
  IF Len(table) = 0 THEN <<>>
  ELSE FlatMapRoutesReversed(Tail(table), config, output)
         \o RouteSet(Head(table), config, output)

RECURSIVE FlatMapRoutes(_, _, _)
FlatMapRoutes(table, config, output) ==
  IF Len(table) = 0 THEN <<>>
  ELSE RouteSet(Head(table), config, output)
         \o FlatMapRoutes(Tail(table), config, output)

\* faulty variant: the first entry under /<assets> is taken, not the last
FirstAssetIndex(entries, config) ==
  LET hits == { k \in 1..Len(entries) :
                  StartsWith(entries[k].route, "/" \o config.build.assets) }
  IN  IF hits = {} THEN 0 ELSE CHOOSE k \in hits : \A j \in hits : k <= j

\* routes.reduce(...): the index of the last entry under /<assets>, counted
\* from 1; 0 when there is none
LastAssetIndex(entries, config) ==
  LET hits == { k \in 1..Len(entries) :
                  StartsWith(entries[k].route, "/" \o config.build.assets) }
  IN  IF hits = {} THEN 0 ELSE CHOOSE k \in hits : \A j \in hits : j <= k

AssetCatchAll(config) ==
  [route     |-> "/" \o config.build.assets \o "/[...slug]",
   type      |-> "endpoint",
   pattern   |-> "/^\\/" \o config.build.assets \o "\\/.*?\\/?$/",
   prerender |-> TRUE]

\* list.splice(at, 0, item), at counted from 0
Splice(list, at, item) ==
  SubSeq(list, 1, at) \o <<item>> \o SubSeq(list, at + 1, Len(list))

ManifestRoutes(table, config, output) ==
  LET flat == FlatMapRoutes(table, config, output) IN
  IF output = "static"
    THEN Splice(flat, LastAssetIndex(flat, config), AssetCatchAll(config))
    ELSE flat

\* history: which route of the table each entry of ManifestRoutes comes from
RECURSIVE RouteSetOrigins(_, _, _, _)
RouteSetOrigins(table, config, output, n) ==
  IF Len(table) = 0 THEN <<>>
  ELSE [k \in 1..Len(RouteSet(Head(table), config, output)) |-> n]
         \o RouteSetOrigins(Tail(table), config, output, n + 1)

ManifestOrigins(table, config, output) ==
  LET flat == RouteSetOrigins(table, config, output, 1) IN
  IF output = "static"
    THEN Splice(flat, LastAssetIndex(FlatMapRoutes(table, config, output), config), 0)
    ELSE flat

-----------------------------------------------------------------------------
(* BuildMeta.writeToFile: the document, and the two functions around it    *)

PackageJsonReads == {"unreadable", "no version", "3.1.4"}

\* a getAdapterVersion that answers "unknown" when package.json cannot be read
getAdapterVersionOrUnknown(packageJson) ==
  IF packageJson \in {"unreadable", "no version"} THEN Some("unknown")
  ELSE Some(packageJson)

\* getAdapterVersion: the version, or None when it throws
getAdapterVersion(packageJson) ==
  IF packageJson = "unreadable" THEN None
  ELSE IF packageJson = "no version" THEN Some("unknown")
  ELSE Some(packageJson)

\* the document writeToFile serializes, around the route list it has built
BuildMetaDocument(pluginVersion, manifestRoutes) ==
  [pluginVersion |-> pluginVersion,
   outputMode    |-> buildOutput[1],
   trailingSlash |-> astroConfig[1].trailingSlash,
   clientBuildVersionedSubDir |-> astroConfig[1].build.assets,
   routes        |-> manifestRoutes]
  @@ Field("responseMode", integrationConfig[1].responseMode)

\* a file operation and whether it succeeded
FileOp(op, ok) == [op |-> op, ok |-> ok]

\* handlePrerendered404InSsr: whether 404.html is in the server output afterwards
handlePrerendered404InSsr(copyOk) ==
  IF buildOutput[1] # "server" THEN serverHas404
  ELSE IF copyOk THEN TRUE
  ELSE serverHas404

\* faulty variant: a failed copy is rethrown
handlePrerendered404InSsrRethrows(copyOk) ==
  IF buildOutput[1] = "server" /\ ~copyOk THEN Some("copyFile failed") ELSE None

\* handlePrerendered404InSsr: the error it rejects with; its catch is empty
handlePrerendered404InSsrError(copyOk) == None

\* handlePrerendered404InSsr: its file operations
CopyFileOps(copyOk) ==
  IF buildOutput[1] = "server" THEN << FileOp("copyFile", copyOk) >> ELSE <<>>

-----------------------------------------------------------------------------
(* The integration and its hooks, in the order the framework runs them.    *)

AstroMajorVersions == {4, 5}

\* the argument of createIntegration: none, or an object with or without
\* a responseMode
IntegrationArguments ==
  {None} \cup { Some([responseMode |-> m]) : m \in {None} \cup { Some(r) : r \in ResponseModes } }

Init ==
  /\ hook = "none"
  /\ entrypointParameters = None
  /\ integrationConfig = None
  /\ astroConfig = None
  /\ routes = None
  /\ buildOutput = None
  /\ serverHas404 = FALSE
  /\ metaFile = None
  /\ writes = 0
  /\ origin = <<>>
  /\ buildError = None
  /\ probe = None
  /\ adapterArgs = None
  /\ lambda = None
  /\ fileOps = <<>>

CreateIntegration ==
  /\ hook = "none"
  /\ \E argument \in IntegrationArguments, astroMajorVersion \in AstroMajorVersions :
       IF astroMajorVersion < 5
         THEN /\ hook' = "rejected"
              /\ UNCHANGED entrypointParameters
         ELSE /\ hook' = "created"
              /\ entrypointParameters' =
                   IF argument = None THEN Some([responseMode |-> Some("buffer")])
                   ELSE argument
  /\ UNCHANGED <<buildMetaVars, serverHas404, metaFile, writes, origin, buildError, probe,
                 adapterArgs, lambda, fileOps>>

\* a config:setup hook that also writes the manifest it has so far
AstroConfigSetupWrites ==
  /\ hook = "created"
  /\ integrationConfig' = entrypointParameters
  /\ metaFile' = Some(NoFields @@ Field("responseMode", entrypointParameters[1].responseMode))
  /\ writes' = writes + 1
  /\ hook' = "astro:config:setup"
  /\ UNCHANGED <<entrypointParameters, astroConfig, routes, buildOutput,
                 serverHas404, origin, buildError, probe, adapterArgs, lambda, fileOps>>

\* astro:config:setup (its updateConfig calls change the framework's own
\* configuration, which BuildMeta receives only in astro:config:done)
AstroConfigSetup ==
  /\ hook = "created"
  /\ integrationConfig' = entrypointParameters
  /\ hook' = "astro:config:setup"
  /\ UNCHANGED <<entrypointParameters, astroConfig, routes, buildOutput,
                 serverHas404, metaFile, writes, origin, buildError, probe,
                 adapterArgs, lambda, fileOps>>

\* astro:routes:resolved, when the framework resolves one of the tables
RoutesResolved(tables) ==
  /\ hook = "astro:config:setup"
  /\ \E table \in tables : routes' = Some(table)
  /\ hook' = "astro:routes:resolved"
  /\ UNCHANGED <<entrypointParameters, integrationConfig, astroConfig, buildOutput,
                 serverHas404, metaFile, writes, origin, buildError, probe,
                 adapterArgs, lambda, fileOps>>

AstroRoutesResolved == RoutesResolved(RouteTables)

\* astro:config:done
AstroConfigDone ==
  /\ hook = "astro:routes:resolved"
  /\ \E trailingSlash \in TrailingSlashModes, output \in OutputModes :
       /\ astroConfig' = Some([trailingSlash |-> trailingSlash,
                               build |-> [assets |-> AssetsDir]])
       /\ buildOutput' = Some(output)
  /\ adapterArgs' = Some([responseMode |-> entrypointParameters[1].responseMode])
  /\ hook' = "astro:config:done"
  /\ UNCHANGED <<entrypointParameters, integrationConfig, routes,
                 serverHas404, metaFile, writes, origin, buildError, probe, lambda, fileOps>>

\* astro:build:done: handlePrerendered404InSsr, then writeToFile
AstroBuildDone ==
  /\ hook = "astro:config:done"
  /\ LET manifestRoutes == ManifestRoutes(routes[1], astroConfig[1], buildOutput[1])
         origins == ManifestOrigins(routes[1], astroConfig[1], buildOutput[1]) IN
     \E copyOk \in BOOLEAN, packageJson \in PackageJsonReads, writeOk \in BOOLEAN :
       LET pluginVersion == getAdapterVersion(packageJson)
           copyError == handlePrerendered404InSsrError(copyOk) IN
       /\ serverHas404' = handlePrerendered404InSsr(copyOk)
       /\ IF copyError # None
            THEN /\ buildError' = copyError
                 /\ UNCHANGED <<metaFile, writes, origin>>
          ELSE IF pluginVersion = None
            THEN /\ buildError' = Some("Failed to get adapter version")
                 /\ UNCHANGED <<metaFile, writes, origin>>
          ELSE IF ~writeOk
            THEN /\ buildError' = Some("writeFile failed")
                 /\ UNCHANGED <<metaFile, writes, origin>>
          ELSE /\ metaFile' = Some(BuildMetaDocument(pluginVersion[1], manifestRoutes))
               /\ writes' = writes + 1
               /\ origin' = origins
               /\ UNCHANGED buildError
       /\ fileOps' = CopyFileOps(copyOk)
                      \o (IF copyError # None THEN <<>>
                          ELSE << FileOp("readFile", packageJson # "unreadable") >>)
                      \o (IF copyError = None /\ pluginVersion # None
                            THEN << FileOp("writeFile", writeOk) >> ELSE <<>>)
  /\ hook' = "astro:build:done"
  /\ UNCHANGED <<entrypointParameters, buildMetaVars, probe, adapterArgs, lambda>>

Next ==
  \/ CreateIntegration
  \/ AstroConfigSetup
  \/ AstroRoutesResolved
  \/ AstroConfigDone
  \/ AstroBuildDone

Spec == Init /\ [][Next]_vars

-----------------------------------------------------------------------------
(* buildRedirectPath alone, on every segment list within the bounds.       *)

ProbeParts == { Lit("a"), Dyn("a") }

ProbeSegment == UNION { [1..n -> ProbeParts] : n \in 0..MaxParts }

ProbeSegments == UNION { [1..n -> ProbeSegment] : n \in 0..MaxSegments }

InitRedirectPath ==
  /\ hook = "astro:config:done"
  /\ entrypointParameters = None
  /\ integrationConfig = None
  /\ \E trailingSlash \in TrailingSlashModes :
       astroConfig = Some([trailingSlash |-> trailingSlash,
                           build |-> [assets |-> AssetsDir]])
  /\ routes = None
  /\ buildOutput = None
  /\ serverHas404 = FALSE
  /\ metaFile = None
  /\ writes = 0
  /\ origin = <<>>
  /\ buildError = None
  /\ \E segments \in ProbeSegments :
       probe = [route |-> [segments |-> segments], result |-> None]
  /\ adapterArgs = None
  /\ lambda = None
  /\ fileOps = <<>>

CallBuildRedirectPath ==
  /\ probe.result = None
  /\ probe' = [probe EXCEPT !.result = Some(buildRedirectPath(probe.route, astroConfig[1]))]
  /\ UNCHANGED <<hook, entrypointParameters, buildMetaVars, serverHas404,
                 metaFile, writes, origin, buildError,
                 adapterArgs, lambda, fileOps>>

NextRedirectPath == CallBuildRedirectPath

SpecRedirectPath == InitRedirectPath /\ [][NextRedirectPath]_vars

-----------------------------------------------------------------------------
(* The two pattern rewrites alone, on every pattern string within the      *)
(* bounds: the characters are those the end of a pattern is made of.       *)

PatternAlphabet == {"$", "/", "\\", "?", "a"}

RECURSIVE PatternStrings(_)
PatternStrings(n) ==
  IF n = 0 THEN {""}
  ELSE LET shorter == PatternStrings(n - 1)
       IN  shorter \cup { s \o c : s \in shorter, c \in PatternAlphabet }

InitPattern ==
  /\ hook = "astro:config:done"
  /\ entrypointParameters = None
  /\ integrationConfig = None
  /\ astroConfig = None
  /\ routes = None
  /\ buildOutput = None
  /\ serverHas404 = FALSE
  /\ metaFile = None
  /\ writes = 0
  /\ origin = <<>>
  /\ buildError = None
  /\ \E pattern \in PatternStrings(MaxPatternLen) :
       probe = [pattern |-> pattern, added |-> None, removed |-> None]
  /\ adapterArgs = None
  /\ lambda = None
  /\ fileOps = <<>>

CallAddTrailingSlash ==
  /\ probe.added = None
  /\ probe' = [probe EXCEPT !.added = Some(AddTrailingSlashToPattern(probe.pattern))]
  /\ UNCHANGED <<hook, entrypointParameters, buildMetaVars, serverHas404,
                 metaFile, writes, origin, buildError,
                 adapterArgs, lambda, fileOps>>

CallRemoveTrailingSlash ==
  /\ probe.added # None
  /\ probe.removed = None
  /\ probe' = [probe EXCEPT !.removed = Some(RemoveTrailingSlashFromPattern(probe.added[1]))]
  /\ UNCHANGED <<hook, entrypointParameters, buildMetaVars, serverHas404,
                 metaFile, writes, origin, buildError,
                 adapterArgs, lambda, fileOps>>

NextPattern == CallAddTrailingSlash \/ CallRemoveTrailingSlash

SpecPattern == InitPattern /\ [][NextPattern]_vars

-----------------------------------------------------------------------------
(* Reading a written manifest.                                             *)

Written == metaFile # None
Entries == metaFile[1].routes
Table == routes[1]
Mode == astroConfig[1].trailingSlash
AssetPrefix == "/" \o astroConfig[1].build.assets

\* the positions of the entries emitted for the i-th route of the table
EntriesOf(i) == { k \in DOMAIN origin : origin[k] = i }

Has(entry, name) == name \in DOMAIN entry

IsTrailingSlashPage(route) == route.type = "page" /\ route.pattern # "/"

-----------------------------------------------------------------------------
(* C1: with trailing-slash mode never, every page route other than / has   *)
(* exactly two entries, adjacent: first a redirect entry whose route is    *)
(* the path plus "/" and whose redirectPath is the route's template        *)
(* without a trailing slash, then the canonical entry with the bare path.  *)
C1_NeverRedirectThenCanonical ==
  (Written /\ Mode = "never") =>
    \A i \in DOMAIN Table :
      IsTrailingSlashPage(Table[i]) =>
        \E k \in 1..(Len(Entries) - 1) :
          /\ EntriesOf(i) = {k, k + 1}
          /\ Entries[k].type = "redirect"
          /\ Entries[k].route = Table[i].pattern \o "/"
          /\ Entries[k].redirectPath
               = buildRedirectPath(Table[i], [trailingSlash |-> "never"])
          /\ ~EndsWith(Entries[k].redirectPath, "/")
          /\ Entries[k + 1].type = "page"
          /\ Entries[k + 1].route = Table[i].pattern

C1_Witness ==
  /\ Written /\ Mode = "never" /\ buildOutput[1] = "static"
  /\ Len(Table) = 2
  /\ IsTrailingSlashPage(Table[1]) /\ Table[1].segments = BlogIdSegments
  /\ \E k \in EntriesOf(1) :
       Entries[k].type = "redirect" /\ Entries[k].redirectPath = "/blog/${1}"

(* C2: with trailing-slash mode always, every page route other than / has  *)
(* exactly two entries, adjacent: first the canonical entry whose route is *)
(* the path plus "/", then a redirect entry whose route is the path        *)
(* without the slash and whose redirectPath is the template ending in "/". *)
C2_AlwaysCanonicalThenRedirect ==
  (Written /\ Mode = "always") =>
    \A i \in DOMAIN Table :
      IsTrailingSlashPage(Table[i]) =>
        \E k \in 1..(Len(Entries) - 1) :
          /\ EntriesOf(i) = {k, k + 1}
          /\ Entries[k].type = "page"
          /\ Entries[k].route = Table[i].pattern \o "/"
          /\ Entries[k + 1].type = "redirect"
          /\ Entries[k + 1].route = Table[i].pattern
          /\ ~EndsWith(Entries[k + 1].route, "/")
          /\ Entries[k + 1].redirectPath
               = buildRedirectPath(Table[i], [trailingSlash |-> "always"])
          /\ EndsWith(Entries[k + 1].redirectPath, "/")

C2_Witness ==
  /\ Written /\ Mode = "always" /\ buildOutput[1] = "static"
  /\ Len(Table) = 2
  /\ IsTrailingSlashPage(Table[2]) /\ Table[2].segments = BlogIdSegments
  /\ \E k \in EntriesOf(2) :
       Entries[k].type = "redirect" /\ Entries[k].redirectPath = "/blog/${1}/"

(* C3: a route gets no synthetic redirect entry, and so exactly one entry, *)
(* its canonical one, when the mode is ignore, when its type is not page,  *)
(* or when it is the root route /.                                         *)
C3_NoSyntheticRedirect ==
  Written =>
    \A i \in DOMAIN Table :
      (Mode = "ignore" \/ Table[i].type # "page" \/ Table[i].pattern = "/") =>
        \E k \in DOMAIN Entries :
          /\ EntriesOf(i) = {k}
          /\ Entries[k].type = Table[i].type
          /\ Entries[k].route
               = Table[i].pattern \o (IF Mode = "always" THEN "/" ELSE "")
          /\ Entries[k].pattern = Table[i].pattern

C3_Witness ==
  /\ Written /\ Mode = "always"
  /\ Len(Table) = 2
  /\ Table[1].type = "page" /\ Table[1].pattern = "/"
  /\ Table[2].type = "endpoint"
  /\ Len(Entries) = 2

(* C4: in static output mode the manifest has exactly one asset catch-all  *)
(* entry (/<assets>/[...slug], endpoint, prerender true), right after the  *)
(* last other entry whose route starts with /<assets>, or first when there *)
(* is none; in any other output mode there is no such entry.               *)
C4_AssetCatchAll ==
  Written =>
    IF buildOutput[1] = "static"
      THEN \E k \in DOMAIN Entries :
             /\ EntriesOf(0) = {k}
             /\ Entries[k].route = AssetPrefix \o "/[...slug]"
             /\ Entries[k].type = "endpoint"
             /\ Entries[k].prerender = TRUE
             /\ k > 1 => StartsWith(Entries[k - 1].route, AssetPrefix)
             /\ \A j \in (k + 1)..Len(Entries) :
                  ~StartsWith(Entries[j].route, AssetPrefix)
      ELSE /\ EntriesOf(0) = {}
           /\ Len(Entries) = Len(FlatMapRoutes(Table, astroConfig[1], buildOutput[1]))
           /\ \A k \in DOMAIN Entries : Entries[k].route # AssetPrefix \o "/[...slug]"

C4_Witness ==
  /\ Written /\ buildOutput[1] = "static"
  /\ Len(Entries) = 4
  /\ origin[3] = 0
  /\ StartsWith(Entries[2].route, AssetPrefix)
  /\ ~StartsWith(Entries[4].route, AssetPrefix)

(* C5: for every pattern string p, the add-trailing-slash rewrite followed *)
(* by the remove-trailing-slash rewrite gives p back.                      *)
C5_AddThenRemoveIsIdentity ==
  (probe # None /\ Has(probe, "removed") /\ probe.removed # None) =>
    probe.removed[1] = probe.pattern

C5_Witness ==
  /\ probe # None /\ Has(probe, "removed") /\ probe.removed # None
  /\ EndsWith(probe.pattern, "?$/")
  /\ probe.added[1] # probe.pattern
  /\ EndsWith(probe.added[1], "\\/$/")

-----------------------------------------------------------------------------
(* Reading a redirect template: its placeholders, and the rest of it.      *)

DigitValue(c) == CHOOSE d \in 0..9 : ToString(d) = c

RECURSIVE DecimalValue(_)
DecimalValue(s) ==
  IF Len(s) = 0 THEN 0
  ELSE 10 * DecimalValue(DropLast(s, 1)) + DigitValue(SubSeq(s, Len(s), Len(s)))

ClosingBrace(t) == CHOOSE j \in 1..Len(t) :
  SubSeq(t, j, j) = "}" /\ \A m \in 1..(j - 1) : SubSeq(t, m, m) # "}"

\* the numbers of the ${n} placeholders of t, in the order they stand in t
RECURSIVE TemplatePlaceholders(_)
TemplatePlaceholders(t) ==
  IF Len(t) < 2 THEN <<>>
  ELSE IF SubSeq(t, 1, 2) = "${"
    THEN LET j == ClosingBrace(t)
         IN  <<DecimalValue(SubSeq(t, 3, j - 1))>>
               \o TemplatePlaceholders(SubSeq(t, j + 1, Len(t)))
  ELSE TemplatePlaceholders(SubSeq(t, 2, Len(t)))

\* t with its ${n} placeholders taken out
RECURSIVE TemplateLiterals(_)
TemplateLiterals(t) ==
  IF Len(t) < 2 THEN t
  ELSE IF SubSeq(t, 1, 2) = "${"
    THEN TemplateLiterals(SubSeq(t, ClosingBrace(t) + 1, Len(t)))
  ELSE SubSeq(t, 1, 1) \o TemplateLiterals(SubSeq(t, 2, Len(t)))

IsDynamic(part) == part.dynamic
IsLiteral(part) == ~part.dynamic

RECURSIVE DynamicCount(_)
DynamicCount(segments) ==
  IF Len(segments) = 0 THEN 0
  ELSE Len(SelectSeq(Head(segments), IsDynamic)) + DynamicCount(Tail(segments))

\* what the literal parts alone spell, segment by segment
RECURSIVE LiteralText(_)
LiteralText(segment) ==
  IF Len(segment) = 0 THEN ""
  ELSE (IF Head(segment).dynamic THEN "" ELSE Head(segment).content)
         \o LiteralText(Tail(segment))

LiteralPath(segments, mode) ==
  CollapseSlashes("/" \o Join([k \in 1..Len(segments) |-> LiteralText(segments[k])], "/")
                      \o (IF mode = "always" THEN "/" ELSE ""))

HasDoubleSlash(s) == \E i \in 1..(Len(s) - 1) : SubSeq(s, i, i + 1) = "//"

ProbedRedirectPath ==
  probe # None /\ Has(probe, "result") /\ probe.result # None

(* C6: for a route with k dynamic parts, the placeholders of the template  *)
(* returned by buildRedirectPath are ${1}, ..., ${k} in path order, each   *)
(* once, numbered across segments; a dynamic part contributes nothing but  *)
(* its placeholder, so what is left of the template without them is what   *)
(* the literal parts spell.                                                *)
C6_PlaceholdersNumberedInPathOrder ==
  ProbedRedirectPath =>
    LET t == probe.result[1]
        k == DynamicCount(probe.route.segments)
    IN  /\ TemplatePlaceholders(t) = [n \in 1..k |-> n]
        /\ CollapseSlashes(TemplateLiterals(t))
             = LiteralPath(probe.route.segments, Mode)

C6_Witness ==
  /\ ProbedRedirectPath
  /\ Len(probe.route.segments) = 2
  /\ DynamicCount(probe.route.segments) = 3
  /\ probe.route.segments[1] = <<Dyn("a"), Dyn("a")>>
  /\ TemplatePlaceholders(probe.result[1]) = <<1, 2, 3>>

(* C7: whatever the segments and the mode, the string buildRedirectPath    *)
(* returns starts with "/", has no two "/" in a row, and ends with "/"     *)
(* when the mode is always.                                                *)
C7_RedirectPathSlashes ==
  ProbedRedirectPath =>
    LET t == probe.result[1]
    IN  /\ StartsWith(t, "/")
        /\ ~HasDoubleSlash(t)
        /\ Mode = "always" => EndsWith(t, "/")

C7_Witness ==
  /\ ProbedRedirectPath
  /\ Mode = "always"
  /\ probe.route.segments = << <<>>, <<Lit("a")>> >>
  /\ probe.result[1] = "/a/"

-----------------------------------------------------------------------------
\* an entry emitted for a route of the table that is not a synthetic
\* trailing-slash redirect: it has the type of its route, and a synthetic
\* redirect is emitted for pages only
IsCanonical(k) ==
  origin[k] # 0 /\ Entries[k].type = Table[origin[k]].type

(* C8: in a written manifest no entry of type redirect has a prerender     *)
(* field, and every canonical entry of another type has prerender true in  *)
(* static output mode and the route's own prerender flag otherwise.        *)
C8_Prerender ==
  Written =>
    \A k \in DOMAIN Entries :
      /\ Entries[k].type = "redirect" => ~Has(Entries[k], "prerender")
      /\ (IsCanonical(k) /\ Entries[k].type # "redirect") =>
           /\ Has(Entries[k], "prerender")
           /\ Entries[k].prerender
                = IF buildOutput[1] = "static" THEN TRUE
                  ELSE Table[origin[k]].isPrerendered

C8_Witness ==
  /\ Written /\ buildOutput[1] = "static" /\ Mode = "never"
  /\ Len(Table) = 2
  /\ Table[1].type = "page" /\ ~Table[1].isPrerendered /\ Table[1].pattern # "/"
  /\ Table[2].type = "redirect"
  /\ \E k \in EntriesOf(1) : IsCanonical(k) /\ Entries[k].prerender = TRUE

(* C9: in a written manifest an entry has a redirectPath exactly when its  *)
(* type is redirect or the route it was emitted for has an explicit        *)
(* redirect target.                                                        *)
C9_RedirectPathPresence ==
  Written =>
    \A k \in DOMAIN Entries :
      Has(Entries[k], "redirectPath")
        <=> \/ Entries[k].type = "redirect"
            \/ origin[k] # 0 /\ Table[origin[k]].redirect.kind # "undefined"

C9_Witness ==
  /\ Written /\ Mode = "always"
  /\ Len(Table) = 2
  /\ Table[1].type = "redirect" /\ Table[1].redirect.kind = "object"
  /\ Table[1].redirectRoute = None
  /\ IsTrailingSlashPage(Table[2])
  /\ Cardinality({ k \in DOMAIN Entries : Has(Entries[k], "redirectPath") }) = 2

ExplicitTarget(route) ==
  IF route.redirect.kind = "string" THEN Some(route.redirect.value)
  ELSE IF route.redirect.kind = "object" THEN Some(route.redirect.destination)
  ELSE None

(* C10, as claimed: the redirectPath of a route's canonical entry is the   *)
(* route's explicit redirect target whenever it has one, also when the     *)
(* route has a redirectRoute; the template built from segments is used     *)
(* only without an explicit target; without either there is none.          *)
C10_ExplicitTargetFirst ==
  Written =>
    \A k \in DOMAIN Entries :
      IsCanonical(k) =>
        LET route == Table[origin[k]] IN
        IF ExplicitTarget(route) # None
          THEN /\ Has(Entries[k], "redirectPath")
               /\ Entries[k].redirectPath = ExplicitTarget(route)[1]
        ELSE IF route.redirectRoute # None
          THEN /\ Has(Entries[k], "redirectPath")
               /\ Entries[k].redirectPath
                    = buildRedirectPath(route.redirectRoute[1], astroConfig[1])
        ELSE ~Has(Entries[k], "redirectPath")

(* C10, amended: the redirectPath of a route's canonical entry is the      *)
(* template built from the segments of the route's redirectRoute whenever  *)
(* it has one, also when the route has an explicit redirect target; the    *)
(* explicit target is used only without a redirectRoute; without either    *)
(* there is none.                                                          *)
C10_RedirectRouteFirst ==
  Written =>
    \A k \in DOMAIN Entries :
      IsCanonical(k) =>
        LET route == Table[origin[k]] IN
        IF route.redirectRoute # None
          THEN /\ Has(Entries[k], "redirectPath")
               /\ Entries[k].redirectPath
                    = buildRedirectPath(route.redirectRoute[1], astroConfig[1])
        ELSE IF ExplicitTarget(route) # None
          THEN /\ Has(Entries[k], "redirectPath")
               /\ Entries[k].redirectPath = ExplicitTarget(route)[1]
        ELSE ~Has(Entries[k], "redirectPath")

C10_Witness ==
  /\ Written /\ Mode = "always"
  /\ Len(Table) = 2
  /\ Table[1].type = "redirect" /\ Table[1].redirect.kind = "string"
  /\ Table[1].redirectRoute # None
  /\ \E k \in EntriesOf(1) : Entries[k].redirectPath = "/blog/${1}/"
  /\ Table[2].type = "redirect" /\ Table[2].redirectRoute = None
  /\ \E k \in EntriesOf(2) : Entries[k].redirectPath = "/blog/[id]"

-----------------------------------------------------------------------------
(* entrypoint.ts: the exports of the deployed function, and one invocation *)
(* of its handler. A response stream is the sequence of the operations     *)
(* made on it.                                                             *)

MaxChunks == 2

\* the events the deployed function receives: those of a function URL or
\* gateway, or the origin requests of a CDN edge function
DeploymentTargets == {"APIGatewayProxyEventV2", "CloudFrontRequestEvent"}

Methods == {"GET", "HEAD", "POST"}

Bodies == {None, Some("payload")}

ForwardedFor == {None, Some("203.0.113.7")}

SourceIp == "198.51.100.1"

NoHeaders == [name \in {} |-> ""]

\* an event as the platform delivers it; shape is what its structure shows
Events(target) ==
  [shape : {target, "unsupported"}, method : Methods, path : {"/garbage"},
   body : Bodies, forwardedFor : ForwardedFor, sourceIp : {SourceIp}]

\* headers[name], undefined when there is none
HeaderValue(headers, name) ==
  IF name \in DOMAIN headers THEN Some(headers[name]) ELSE None

\* lib/event-mapper convertFrom: the InternalEvent, or None when it throws
convertFrom(event) ==
  IF event.shape = "unsupported" THEN None
  ELSE Some([type    |-> event.shape,
             method  |-> event.method,
             url     |-> "https://example.com" \o event.path,
             headers |-> IF event.forwardedFor = None THEN NoHeaders
                         ELSE ("x-forwarded-for" :> event.forwardedFor[1]),
             body    |-> IF event.method \in {"GET", "HEAD"} THEN None ELSE event.body,
             remoteAddress |-> event.sourceIp])

\* the request with every method's body passed on
createRequestWithBody(internalEvent) ==
  [url     |-> internalEvent.url,
   method  |-> internalEvent.method,
   headers |-> internalEvent.headers,
   body    |-> internalEvent.body]

createRequest(internalEvent) ==
  [url     |-> internalEvent.url,
   method  |-> internalEvent.method,
   headers |-> internalEvent.headers,
   body    |-> IF internalEvent.method \in {"GET", "HEAD"} THEN None
               ELSE internalEvent.body]

\* the address of the connection alone
ClientAddressRemoteOnly(internalEvent) == internalEvent.remoteAddress

\* headers['x-forwarded-for'] || remoteAddress
ClientAddress(internalEvent) ==
  LET forwarded == HeaderValue(internalEvent.headers, "x-forwarded-for") IN
  IF forwarded # None /\ forwarded[1] # "" THEN forwarded[1]
  ELSE internalEvent.remoteAddress

\* the operations on a response stream
From(statusCode) == [op |-> "from", statusCode |-> statusCode, data |-> ""]
Write(data) == [op |-> "write", statusCode |-> 0, data |-> data]
End == [op |-> "end", statusCode |-> 0, data |-> ""]

\* the error written before the status is attached
streamErrorWriteFirst(statusCode, error, responseStream) ==
  responseStream \o << Write(error), From(statusCode), End >>

streamError(statusCode, error, responseStream) ==
  responseStream \o << From(statusCode), Write(error), End >>

\* createExports: which function the exported handler is
createExports(args) ==
  LET isStreaming == args.responseMode = Some("stream") IN
  [handler |-> IF isStreaming THEN "streamHandler" ELSE "bufferHandler"]

\* what app.render resolves to: a status and a body that yields its chunks
\* in order and, when failsAfter is set, errors after that many of them
Chunks == {"a", "b"}

ResponseBodies == UNION { [1..n -> Chunks] : n \in 0..MaxChunks }

Responses ==
  UNION { { [status |-> status, chunks |-> chunks, failsAfter |-> failsAfter] :
              status \in {200, 500},
              failsAfter \in {None} \cup { Some(k) : k \in 0..Len(chunks) } } :
          chunks \in ResponseBodies }

NotFoundResponse == [status |-> 404, chunks |-> <<"Not found">>, failsAfter |-> None]

\* lib/event-mapper convertTo without a response stream: the whole body in
\* one result, or None when reading the body fails
convertTo(response) ==
  IF response.failsAfter # None THEN None
  ELSE Some([statusCode |-> response.status, body |-> Join(response.chunks, "")])

\* a handler that catches the error and answers with it
ThrowReturnsError(l, error) ==
  [l EXCEPT !.pc = "done",
            !.returned = Some([statusCode |-> 500, body |-> error])]

\* a handler that catches the error and reports it with streamError
ThrowStreamError(l, error) ==
  [l EXCEPT !.pc = "failed",
            !.thrown = Some(error),
            !.responseStream =
               IF l.handler = "streamHandler"
                 THEN streamError(500, error, l.responseStream)
                 ELSE l.responseStream]

\* neither handler catches: an error thrown inside leaves the handler
Throw(l, error) == [l EXCEPT !.pc = "failed", !.thrown = Some(error)]

\* the function after createExports, before its first invocation
Exports(target, args) ==
  [target         |-> target,
   handler        |-> createExports(args).handler,
   pc             |-> "idle",
   event          |-> None,
   internalEvent  |-> None,
   request        |-> None,
   matched        |-> <<>>,    \* the requests given to app.match, in order
   routeData      |-> None,
   rendered       |-> <<>>,    \* the calls of app.render, in order
   response       |-> None,
   sent           |-> 0,       \* chunks of the response body written so far
   responseStream |-> <<>>,
   returned       |-> None,    \* what the handler resolved to
   thrown         |-> None]    \* what the handler rejected with

notLambda == <<hook, entrypointParameters, buildMetaVars, serverHas404, metaFile,
               writes, origin, buildError, probe, adapterArgs, fileOps>>

IsStreaming == lambda.handler = "streamHandler"

\* the server function exists once a server build has written its output
Deployable ==
  /\ hook = "astro:build:done"
  /\ buildError = None
  /\ buildOutput = Some("server")

CreateExports ==
  /\ Deployable
  /\ lambda = None
  /\ \E target \in DeploymentTargets : lambda' = Exports(target, adapterArgs[1])
  /\ UNCHANGED notLambda

Invoke ==
  /\ lambda # None
  /\ lambda.pc = "idle"
  /\ \E event \in Events(lambda.target) :
       lambda' = [lambda EXCEPT !.event = Some(event), !.pc = "convertFrom"]
  /\ UNCHANGED notLambda

\* const internalEvent = convertFrom(event); const request = createRequest(internalEvent)
ConvertFrom ==
  /\ lambda # None
  /\ lambda.pc = "convertFrom"
  /\ LET internalEvent == convertFrom(lambda.event[1]) IN
     lambda' = IF internalEvent = None
                 THEN Throw(lambda, "UnsupportedEventShape")
                 ELSE [lambda EXCEPT !.internalEvent = internalEvent,
                                     !.request = Some(createRequest(internalEvent[1])),
                                     !.pc = "match"]
  /\ UNCHANGED notLambda

\* the handler's branch when app.match finds no route
NotFound(l) ==
  IF l.handler = "streamHandler"
    THEN [l EXCEPT !.responseStream = streamError(404, "Not found", l.responseStream),
                   !.pc = "done"]
    ELSE [l EXCEPT !.returned = convertTo(NotFoundResponse), !.pc = "done"]

\* const routeData = app.match(request); if (!routeData) ...
Match ==
  /\ lambda # None
  /\ lambda.pc = "match"
  /\ \E routeData \in {None, Some("routeData")} :
       LET l == [lambda EXCEPT !.matched = Append(lambda.matched, lambda.request[1]),
                               !.routeData = routeData] IN
       lambda' = IF routeData = None THEN NotFound(l) ELSE [l EXCEPT !.pc = "render"]
  /\ UNCHANGED notLambda

\* const response = await app.render(request, renderOptions)
Render ==
  /\ lambda # None
  /\ lambda.pc = "render"
  /\ \E response \in Responses :
       lambda' = [lambda EXCEPT
                    !.rendered = Append(lambda.rendered,
                                   [request       |-> lambda.request[1],
                                    routeData     |-> lambda.routeData[1],
                                    clientAddress |-> ClientAddress(lambda.internalEvent[1])]),
                    !.response = Some(response),
                    !.pc = "convertTo"]
  /\ UNCHANGED notLambda

\* bufferHandler: return convertTo({ type, response, cookies })
ConvertToBuffer ==
  /\ lambda # None
  /\ lambda.pc = "convertTo"
  /\ ~IsStreaming
  /\ LET result == convertTo(lambda.response[1]) IN
     lambda' = IF result = None THEN Throw(lambda, "body failed")
               ELSE [lambda EXCEPT !.returned = result, !.pc = "done"]
  /\ UNCHANGED notLambda

\* streamHandler: convertTo({ type, response, responseStream, cookies }) first
\* attaches the status and headers to the stream
ConvertToStreamFrom ==
  /\ lambda # None
  /\ lambda.pc = "convertTo"
  /\ IsStreaming
  /\ lambda' = [lambda EXCEPT
                  !.responseStream = Append(lambda.responseStream,
                                            From(lambda.response[1].status)),
                  !.pc = "body"]
  /\ UNCHANGED notLambda

\* ... then writes each chunk of the body as the body yields it
ConvertToStreamWrite ==
  /\ lambda # None
  /\ lambda.pc = "body"
  /\ lambda.response[1].failsAfter # Some(lambda.sent)
  /\ lambda.sent < Len(lambda.response[1].chunks)
  /\ lambda' = [lambda EXCEPT
                  !.responseStream = Append(lambda.responseStream,
                                            Write(lambda.response[1].chunks[lambda.sent + 1])),
                  !.sent = lambda.sent + 1]
  /\ UNCHANGED notLambda

\* ... and ends the stream when the body is exhausted
ConvertToStreamEnd ==
  /\ lambda # None
  /\ lambda.pc = "body"
  /\ lambda.response[1].failsAfter # Some(lambda.sent)
  /\ lambda.sent = Len(lambda.response[1].chunks)
  /\ lambda' = [lambda EXCEPT
                  !.responseStream = Append(lambda.responseStream, End),
                  !.pc = "done"]
  /\ UNCHANGED notLambda

\* ... or, when the body fails, writes the error into the stream, ends it,
\* and rejects
ConvertToStreamError ==
  /\ lambda # None
  /\ lambda.pc = "body"
  /\ lambda.response[1].failsAfter = Some(lambda.sent)
  /\ lambda' = Throw([lambda EXCEPT
                        !.responseStream = lambda.responseStream
                                             \o << Write("body failed"), End >>],
                     "body failed")
  /\ UNCHANGED notLambda

\* a build with few routes, then the function it deploys
FewTables ==
  { <<>>,
    << Page(RootSegments, FALSE) >>,
    << Page(AboutSegments, TRUE), Page(BlogIdSegments, FALSE) >> }

AstroRoutesResolvedFew == RoutesResolved(FewTables)

NextDeploy ==
  \/ CreateIntegration
  \/ AstroConfigSetup
  \/ AstroRoutesResolvedFew
  \/ AstroConfigDone
  \/ AstroBuildDone
  \/ CreateExports

SpecDeploy == Init /\ [][NextDeploy]_vars

\* the function of a server build without routes, and one invocation of it
InitHandler ==
  /\ hook = "astro:build:done"
  /\ \E responseMode \in {None} \cup { Some(r) : r \in ResponseModes } :
       /\ entrypointParameters = Some([responseMode |-> responseMode])
       /\ integrationConfig = entrypointParameters
       /\ adapterArgs = Some([responseMode |-> responseMode])
  /\ astroConfig = Some([trailingSlash |-> "ignore", build |-> [assets |-> AssetsDir]])
  /\ routes = Some(<<>>)
  /\ buildOutput = Some("server")
  /\ serverHas404 \in BOOLEAN
  /\ metaFile = Some(BuildMetaDocument("3.1.4", <<>>))
  /\ writes = 1
  /\ origin = <<>>
  /\ buildError = None
  /\ probe = None
  /\ lambda = None
  /\ fileOps = << FileOp("copyFile", serverHas404), FileOp("readFile", TRUE),
                  FileOp("writeFile", TRUE) >>

NextHandler ==
  \/ CreateExports
  \/ Invoke
  \/ ConvertFrom
  \/ Match
  \/ Render
  \/ ConvertToBuffer
  \/ ConvertToStreamFrom
  \/ ConvertToStreamWrite
  \/ ConvertToStreamEnd
  \/ ConvertToStreamError

SpecHandler == InitHandler /\ [][NextHandler]_vars

-----------------------------------------------------------------------------
(* Reading an invocation.                                                  *)

Invoked == lambda # None /\ lambda.event # None

Finished == Invoked /\ lambda.pc \in {"done", "failed"}

StreamOps(op) == { k \in 1..Len(lambda.responseStream) : lambda.responseStream[k].op = op }

\* the generic plain-text 404 has left the handler
GenericNotFound ==
  /\ Invoked
  /\ \/ /\ lambda.returned # None
        /\ lambda.returned[1] = [statusCode |-> 404, body |-> "Not found"]
     \/ /\ From(404) \in { lambda.responseStream[k] : k \in StreamOps("from") }
        /\ Write("Not found") \in { lambda.responseStream[k] : k \in StreamOps("write") }

NotFoundRoute == "https://example.com/404"

(* C11: in both handlers the generic plain-text 404 is returned only after *)
(* both fallbacks have failed: there is no pre-rendered not-found document *)
(* to serve, and matching has been run a second time, against the request  *)
(* rewritten to the not-found route, without finding a route.              *)
C11_NotFoundAfterBothFallbacks ==
  GenericNotFound =>
    /\ ~serverHas404
    /\ Len(lambda.matched) = 2
    /\ lambda.matched[2].url = NotFoundRoute

\* the targets whose events streamHandler takes
StreamingTargets == {"APIGatewayProxyEventV2"}

(* C12: an integration created with responseMode stream for a deployment   *)
(* target that does not support streaming is rejected at setup, so no      *)
(* streaming handler is ever created for such a target.                    *)
C12_StreamingRejectedAtSetup ==
  (lambda # None /\ lambda.target \notin StreamingTargets) =>
    /\ entrypointParameters[1].responseMode # Some("stream")
    /\ lambda.handler # "streamHandler"

(* C13: when the integration is created without a responseMode (without   *)
(* an argument, which makes the parameters {responseMode: buffer}, or with *)
(* an object that has no responseMode), the exported handler is the        *)
(* buffered one and the responseMode of the written manifest is buffer.    *)
C13_DefaultsToBuffer ==
  (/\ lambda # None
   /\ entrypointParameters[1].responseMode \in {None, Some("buffer")}) =>
    /\ lambda.handler = "bufferHandler"
    /\ Has(metaFile[1], "responseMode")
    /\ metaFile[1].responseMode = "buffer"

-----------------------------------------------------------------------------
(* createRequest alone, on every InternalEvent of the sets below.          *)

ProbeMethods == {"GET", "HEAD", "POST", "PUT", "DELETE"}

ProbeBodies == {None, Some(""), Some("payload")}

InternalEvents ==
  [type : DeploymentTargets, method : ProbeMethods, url : {"https://example.com/"},
   headers : {NoHeaders, "x-forwarded-for" :> "203.0.113.7"},
   body : ProbeBodies, remoteAddress : {SourceIp}]

InitCreateRequest ==
  /\ hook = "astro:build:done"
  /\ entrypointParameters = None
  /\ integrationConfig = None
  /\ astroConfig = None
  /\ routes = None
  /\ buildOutput = None
  /\ serverHas404 = FALSE
  /\ metaFile = None
  /\ writes = 0
  /\ origin = <<>>
  /\ buildError = None
  /\ \E internalEvent \in InternalEvents :
       probe = [internalEvent |-> internalEvent, request |-> None]
  /\ adapterArgs = None
  /\ lambda = None
  /\ fileOps = <<>>

CallCreateRequest ==
  /\ probe.request = None
  /\ probe' = [probe EXCEPT !.request = Some(createRequest(probe.internalEvent))]
  /\ UNCHANGED <<hook, entrypointParameters, buildMetaVars, serverHas404,
                 metaFile, writes, origin, buildError, adapterArgs, lambda, fileOps>>

NextCreateRequest == CallCreateRequest

SpecCreateRequest == InitCreateRequest /\ [][NextCreateRequest]_vars

(* C14: the request createRequest makes for a GET or HEAD event has no     *)
(* body, whatever body the event has; for every other method its body is   *)
(* the event's body, unchanged.                                            *)
C14_BodyOnlyForOtherMethods ==
  (probe # None /\ Has(probe, "request") /\ probe.request # None) =>
    IF probe.internalEvent.method \in {"GET", "HEAD"}
      THEN probe.request[1].body = None
      ELSE probe.request[1].body = probe.internalEvent.body

C14_Witness ==
  /\ probe # None /\ Has(probe, "request") /\ probe.request # None
  /\ probe.internalEvent.method = "HEAD"
  /\ probe.internalEvent.body = Some("payload")
  /\ probe.request[1].body = None

-----------------------------------------------------------------------------
C16_UnsupportedEventFailsFast ==
  (/\ Invoked
   /\ lambda.pc # "convertFrom"
   /\ convertFrom(lambda.event[1]) = None) =>
    /\ lambda.pc = "failed"
    /\ lambda.thrown = Some("UnsupportedEventShape")
    /\ lambda.matched = <<>>
    /\ lambda.rendered = <<>>
    /\ lambda.returned = None
    /\ lambda.responseStream = <<>>

C16_Witness ==
  /\ Invoked
  /\ IsStreaming
  /\ lambda.event[1].shape = "unsupported"
  /\ lambda.pc = "failed"
  /\ lambda.thrown = Some("UnsupportedEventShape")

\* the data of the writes made on the response stream, in order
WrittenData ==
  LET log == lambda.responseStream
      IsWrite(operation) == operation.op = "write"
      writeOps == SelectSeq(log, IsWrite)
  IN [k \in 1..Len(writeOps) |-> writeOps[k].data]

(* C17: on the response stream of a streaming invocation the status is     *)
(* attached exactly once and before anything else, the body's chunks are   *)
(* written in the order the body yields them, and the stream is ended      *)
(* exactly once, as the last operation: after the last chunk when the      *)
(* handler has responded, on the not-found path through streamError too.   *)
C17_StreamOrder ==
  (lambda # None /\ IsStreaming) =>
    LET log == lambda.responseStream IN
    /\ \A k \in 1..Len(log) : (log[k].op = "from") <=> (k = 1)
    /\ \A k \in 1..Len(log) : (log[k].op = "end") => (k = Len(log))
    /\ lambda.response # None =>
         /\ lambda.sent <= Len(WrittenData)
         /\ SubSeq(WrittenData, 1, lambda.sent)
              = SubSeq(lambda.response[1].chunks, 1, lambda.sent)
    /\ lambda.pc = "done" =>
         /\ Cardinality(StreamOps("from")) = 1
         /\ Cardinality(StreamOps("end")) = 1
         /\ WrittenData = IF lambda.response = None THEN <<"Not found">>
                          ELSE lambda.response[1].chunks

C17_Witness ==
  /\ lambda # None
  /\ IsStreaming
  /\ lambda.pc = "done"
  /\ lambda.responseStream = << From(200), Write("a"), Write("b"), End >>

(* C18: in streaming mode, when the body fails after its first chunk was   *)
(* written, the stream keeps the one status attached at its start: the     *)
(* chunks written so far are followed by the error, written into the body, *)
(* and by the end of the stream; nothing is returned as a response.        *)
C18_ErrorAfterFirstChunk ==
  (/\ lambda # None
   /\ IsStreaming
   /\ lambda.pc = "failed"
   /\ lambda.sent >= 1) =>
    LET log == lambda.responseStream IN
    /\ log = << From(lambda.response[1].status) >>
               \o [k \in 1..lambda.sent |-> Write(lambda.response[1].chunks[k])]
               \o << Write(lambda.thrown[1]), End >>
    /\ lambda.returned = None

C18_Witness ==
  /\ lambda # None
  /\ IsStreaming
  /\ lambda.pc = "failed"
  /\ lambda.response # None
  /\ lambda.response[1].chunks = <<"a", "b">>
  /\ lambda.response[1].failsAfter = Some(1)
  /\ lambda.responseStream = << From(500), Write("a"), Write("body failed"), End >>

-----------------------------------------------------------------------------
\* the hooks in the order the framework runs them, after createIntegration
HookOrder ==
  << "none", "created", "astro:config:setup", "astro:routes:resolved",
     "astro:config:done", "astro:build:done" >>

HookIndex(h) == CHOOSE k \in 1..Len(HookOrder) : HookOrder[k] = h

AllSet ==
  /\ integrationConfig # None
  /\ routes # None
  /\ astroConfig # None
  /\ buildOutput # None

(* C19: in one build the hooks run in the order config:setup,              *)
(* routes:resolved, config:done, build:done; the manifest is written at    *)
(* most once, only in build:done and only when the integration config, the *)
(* routes, the framework config and the build output are all set, and once *)
(* when build:done ends without an error; the routes are walked in that    *)
(* write only; and build:done, so writeToFile, leaves BuildMeta's state as *)
(* it was.                                                                 *)
C19_WrittenOnceAfterAllHooks ==
  /\ [](/\ writes <= 1
        /\ Written <=> writes = 1
        /\ Written => (hook = "astro:build:done" /\ AllSet)
        /\ (hook = "astro:build:done" /\ buildError = None) => writes = 1
        /\ (origin # <<>>) => Written)
  /\ [][/\ (hook' # hook /\ hook' # "rejected") =>
             HookIndex(hook') = HookIndex(hook) + 1
        /\ (writes' # writes \/ metaFile' # metaFile \/ origin' # origin) =>
             /\ hook = "astro:config:done"
             /\ hook' = "astro:build:done"
             /\ writes' = writes + 1
        /\ hook' = "astro:build:done" => buildMetaVars' = buildMetaVars]_vars

C19_Witness ==
  /\ hook = "astro:build:done"
  /\ writes = 1
  /\ Written
  /\ Len(Table) >= 2
  /\ Len(Entries) > Len(Table)
  /\ buildOutput = Some("server")

\* the file operation op of astro:build:done failed
Failed(op) ==
  \E k \in 1..Len(fileOps) : fileOps[k].op = op /\ ~fileOps[k].ok

Attempted(op) ==
  \E k \in 1..Len(fileOps) : fileOps[k].op = op

(* C20: when package.json cannot be read for the adapter version, or the   *)
(* manifest cannot be written, astro:build:done ends with the error, which *)
(* is not swallowed; when it is the version that cannot be read, writing   *)
(* the manifest is not even attempted and there is no manifest.            *)
C20_FailuresLeaveTheHook ==
  hook = "astro:build:done" =>
    /\ Failed("writeFile") => buildError # None
    /\ Failed("readFile") =>
         /\ buildError = Some("Failed to get adapter version")
         /\ ~Attempted("writeFile")
         /\ metaFile = None
         /\ writes = 0

C20_Witness ==
  /\ hook = "astro:build:done"
  /\ Failed("readFile")
  /\ buildError = Some("Failed to get adapter version")
  /\ metaFile = None
  /\ Len(Table) >= 1

-----------------------------------------------------------------------------
(* C21: with trailing-slash mode never, the pattern of the redirect entry  *)
(* emitted before a page route's canonical entry is the canonical entry's  *)
(* pattern with its end anchor replaced by a slash and the end anchor, so  *)
(* it ends with that suffix and differs from the canonical entry's.        *)
C21_NeverRedirectPatternDiffers ==
  (Written /\ Mode = "never") =>
    \A i \in DOMAIN Table :
      IsTrailingSlashPage(Table[i]) =>
        \A k \in EntriesOf(i) :
          (Entries[k].type = "redirect" /\ (k + 1) \in EntriesOf(i)) =>
            /\ EndsWith(Entries[k].pattern, "\\/$/")
            /\ Entries[k].pattern # Entries[k + 1].pattern

-----------------------------------------------------------------------------
(* The remove-trailing-slash rewrite alone, on the regular expressions a   *)
(* route can have: a body, then a required slash, an optional slash or no  *)
(* slash before the end anchor.                                            *)

PatternEndings == {"\\/$/", "\\/?$/", "$/"}

InitRemoveSlash ==
  /\ hook = "astro:config:done"
  /\ entrypointParameters = None
  /\ integrationConfig = None
  /\ astroConfig = None
  /\ routes = None
  /\ buildOutput = None
  /\ serverHas404 = FALSE
  /\ metaFile = None
  /\ writes = 0
  /\ origin = <<>>
  /\ buildError = None
  /\ \E body \in PatternStrings(MaxPatternLen), ending \in PatternEndings :
       probe = [regex |-> "/^" \o body \o ending, stripped |-> None]
  /\ adapterArgs = None
  /\ lambda = None
  /\ fileOps = <<>>

CallRemoveSlash ==
  /\ probe.stripped = None
  /\ probe' = [probe EXCEPT !.stripped = Some(RemoveTrailingSlashFromPattern(probe.regex))]
  /\ UNCHANGED <<hook, entrypointParameters, buildMetaVars, serverHas404,
                 metaFile, writes, origin, buildError, adapterArgs, lambda, fileOps>>

NextRemoveSlash == CallRemoveSlash

SpecRemoveSlash == InitRemoveSlash /\ [][NextRemoveSlash]_vars

Stripped == probe # None /\ Has(probe, "stripped") /\ probe.stripped # None

(* C22, as claimed: the remove-trailing-slash rewrite strips the slash     *)
(* before the end anchor when it is required and when it is optional, so   *)
(* that what is left ends with the bare end anchor.                        *)
C22_StripsRequiredAndOptional ==
  Stripped =>
    /\ EndsWith(probe.regex, "\\/$/") =>
         probe.stripped[1] = DropLast(probe.regex, 4) \o "$/"
    /\ EndsWith(probe.regex, "\\/?$/") =>
         probe.stripped[1] = DropLast(probe.regex, 5) \o "$/"

(* C22, amended: the remove-trailing-slash rewrite strips the slash before *)
(* the end anchor only when it is required; a regular expression that ends *)
(* with an optional slash, or without one, is left as it is.               *)
C22_StripsRequiredOnly ==
  Stripped =>
    IF EndsWith(probe.regex, "\\/$/")
      THEN probe.stripped[1] = DropLast(probe.regex, 4) \o "$/"
      ELSE probe.stripped[1] = probe.regex

C22_Witness ==
  /\ Stripped
  /\ probe.regex = "/^\\/a\\/?$/"
  /\ probe.stripped[1] = probe.regex

-----------------------------------------------------------------------------
(* C23: in astro:build:done the copy of the pre-rendered 404 document is   *)
(* attempted exactly when the build output is server, and then before      *)
(* writeToFile reads or writes anything; a failed copy is not an error of  *)
(* the hook and writeToFile runs all the same, so the manifest is written  *)
(* whenever the version read and the write succeed.                        *)
C23_CopyFailureIsSwallowed ==
  hook = "astro:build:done" =>
    /\ Attempted("copyFile") <=> buildOutput = Some("server")
    /\ Attempted("copyFile") => fileOps[1].op = "copyFile"
    /\ Attempted("readFile")
    /\ buildError \in {None, Some("Failed to get adapter version"), Some("writeFile failed")}
    /\ (~Failed("readFile") /\ ~Failed("writeFile")) =>
         (Written /\ buildError = None)

C23_Witness ==
  /\ hook = "astro:build:done"
  /\ Failed("copyFile")
  /\ fileOps = << FileOp("copyFile", FALSE), FileOp("readFile", TRUE),
                  FileOp("writeFile", TRUE) >>
  /\ Written
  /\ Len(Table) >= 1

-----------------------------------------------------------------------------
\* entry k is the canonical entry of the i-th route of the table
IsCanonicalOf(k, i) ==
  /\ k \in EntriesOf(i)
  /\ Entries[k].type = Table[i].type
  /\ Entries[k].route = Table[i].pattern \o (IF Mode = "always" THEN "/" ELSE "")

(* C24: the route list of a manifest written for a table of N routes has   *)
(* N + P + S entries, P being the number of page routes other than / when  *)
(* the mode is never or always and 0 when it is ignore, S being 1 in       *)
(* static output and 0 otherwise; every route has its canonical entry, and *)
(* the canonical entries are in the order of their routes in the table.    *)
C24_EntryCountAndOrder ==
  Written =>
    LET P == IF Mode \in {"never", "always"}
               THEN Cardinality({ i \in DOMAIN Table : IsTrailingSlashPage(Table[i]) })
               ELSE 0
        S == IF buildOutput = Some("static") THEN 1 ELSE 0
    IN /\ Len(Entries) = Len(Table) + P + S
       /\ \A i \in DOMAIN Table : \E k \in DOMAIN Entries : IsCanonicalOf(k, i)
       /\ \A i, j \in DOMAIN Table :
            i < j => \A k, l \in DOMAIN Entries :
                       (IsCanonicalOf(k, i) /\ IsCanonicalOf(l, j)) => k < l

C24_Witness ==
  /\ Written
  /\ Mode = "always"
  /\ buildOutput = Some("static")
  /\ Len(Table) = 2
  /\ Table[1].segments = BlogIdSegments /\ Table[1].type = "page"
  /\ Table[2].type = "endpoint"
  /\ Len(Entries) = 4

-----------------------------------------------------------------------------
(* C25: no entry of a written manifest has a route string with two         *)
(* consecutive slashes, whatever the table and the trailing-slash mode;    *)
(* the canonical entry of the root route / has the route string /.         *)
C25_NoDoubleSlashInRoutes ==
  Written =>
    /\ \A k \in DOMAIN Entries : ~HasDoubleSlash(Entries[k].route)
    /\ \A k \in DOMAIN Entries :
         (IsCanonical(k) /\ Table[origin[k]].pattern = "/") => Entries[k].route = "/"

-----------------------------------------------------------------------------
\* a page route other than / whose segments are all literal and spell its path
IsLiteralPage(route) ==
  /\ IsTrailingSlashPage(route)
  /\ DynamicCount(route.segments) = 0
  /\ route.pattern = LiteralPath(route.segments, "ignore")

\* entry k is the synthetic trailing-slash redirect of the i-th route
IsSyntheticOf(k, i) ==
  /\ k \in EntriesOf(i)
  /\ Entries[k].type = "redirect"
  /\ Table[i].type = "page"

(* C26: in the modes never and always, every page route other than / whose *)
(* segments are all literal and spell its path has a synthetic redirect    *)
(* entry; its redirectPath is the route string of the canonical entry of   *)
(* the same route and is not the redirect entry's own route string.        *)
C26_NoSelfRedirect ==
  (Written /\ Mode \in {"never", "always"}) =>
    \A i \in DOMAIN Table :
      IsLiteralPage(Table[i]) =>
        /\ \E k \in DOMAIN Entries : IsSyntheticOf(k, i)
        /\ \A k, c \in DOMAIN Entries :
             (IsSyntheticOf(k, i) /\ IsCanonicalOf(c, i)) =>
               /\ Has(Entries[k], "redirectPath")
               /\ Entries[k].redirectPath = Entries[c].route
               /\ Entries[k].redirectPath # Entries[k].route

C26_Witness ==
  /\ Written
  /\ Mode = "always"
  /\ \E i \in DOMAIN Table, k, c \in DOMAIN Entries :
       /\ IsLiteralPage(Table[i])
       /\ IsSyntheticOf(k, i) /\ IsCanonicalOf(c, i)
       /\ Entries[k].route = "/about"
       /\ Entries[k].redirectPath = "/about/"
       /\ Entries[c].route = "/about/"
====
